---- MODULE Spec2Model ----
(***************************************************************************)
(* Exchange-fan controller (mcp9808_rtc_Andee_log.ino): the run-state      *)
(* machine of loop(), the door delay, the duty-cycle estimator             *)
(* (calcPeriodRatio, calcMovingAverage) and setup().                       *)
(*                                                                         *)
(* Floats are modelled as exact non-negative rationals <<n, d>> in lowest  *)
(* terms, with the two IEEE specials the code can produce: 0/0 (NaN) and   *)
(* x/0 with x > 0 (+Inf).  Every float of the program is built from        *)
(* unsigned operands, so no negative value occurs.  The time values of the *)
(* model are far below 2^24, so (float) conversions are exact and a        *)
(* correctly rounded quotient orders as the exact quotient does.           *)
(***************************************************************************)
EXTENDS Integers, Sequences, FiniteSets, TLC

\* ------------------------------------------------------------------ bounds
\* First value the real time clock reports (unixtime is never 0).
T0 == 1
\* Last value the real time clock reports in the model.
MaxTime == 123
\* Largest number of samples folded into the moving average in the model.
MaxFolds == 1
\* Largest number of log records written in the model.
MaxLogs == 2
\* Last value the real time clock reports in the specifications with logging
\* or a set clock: two logging intervals after T0.
MaxLogTime == 601
\* Largest denominator of a moving average that the specification of the
\* fold folds a further sample into (the averages of up to maxN samples from
\* FoldSamples have denominators up to 2 * maxN).
MaxDenominator == 128

\* Seconds the clock may advance between two passes of loop(); 0 is two
\* passes within the same second of the RTC.
TimeSteps == {0, 60, 61}

\* ------------------------------------------------------- program constants
interval == 300
doorDelay == 120
maxN == 64
defaultPercent == 30
\* Modulus of unsigned long arithmetic.  TLC evaluates integers in 32 signed
\* bits, so the model's unsigned long is 18 bits wide (2^18 > 2 * 86400, the
\* largest value calcPeriodRatio builds from times of day, so that only a
\* subtraction can wrap, as in 32 bits): a difference that wraps is still a
\* value far above every time of the model.
ULONG == 262144
DAY == 86400

\* Slider positions the model draws desiredPercent from: the default and 50.
Percents == {defaultPercent, 50}

notRunning == 0
Running == 1
RunningAdjusting == 2
notRunningAdjusting == 3

LOW == 0
HIGH == 1
\* relayControlPin before setup() writes it
FLOATING == 2

\* --------------------------------------------------------- float arithmetic
RECURSIVE GCD(_, _)
GCD(a, b) == IF b = 0 THEN a ELSE GCD(b, a % b)

NaN == <<0, 0>>
Inf == <<1, 0>>
Zero == <<0, 1>>

IsNaN(x) == x = NaN
IsInf(x) == x = Inf

\* (float)n / (float)d for unsigned n, d
FDiv(n, d) ==
    IF d = 0 THEN (IF n = 0 THEN NaN ELSE Inf)
    ELSE LET g == GCD(n, d) IN <<n \div g, d \div g>>

\* Mutant of FGreater: the comparison written >= instead of >.
M_FGreater_OrEqual(x, y) ==
    ~IsNaN(x) /\ ~IsNaN(y)
        /\ (IsInf(x) \/ (~IsInf(y) /\ x[1] * y[2] >= y[1] * x[2]))

\* x < y on floats: false when either side is NaN
FLess(x, y) ==
    IF IsNaN(x) \/ IsNaN(y) THEN FALSE
    ELSE IF IsInf(x) THEN FALSE
    ELSE IF IsInf(y) THEN TRUE
    ELSE x[1] * y[2] < y[1] * x[2]

FGreater(x, y) == FLess(y, x)

\* x * k for an int k >= 0
FMulInt(x, k) ==
    IF IsNaN(x) THEN NaN
    ELSE IF IsInf(x) THEN (IF k = 0 THEN NaN ELSE Inf)
    ELSE FDiv(x[1] * k, x[2])

FAdd(x, y) ==
    IF IsNaN(x) \/ IsNaN(y) THEN NaN
    ELSE IF IsInf(x) \/ IsInf(y) THEN Inf
    ELSE FDiv(x[1] * y[2] + y[1] * x[2], x[2] * y[2])

\* x / k for an int k > 0
FDivInt(x, k) ==
    IF IsNaN(x) THEN NaN
    ELSE IF IsInf(x) THEN Inf
    ELSE FDiv(x[1], x[2] * k)

\* Mutant of calcPeriodRatio: the on-period start is not carried over midnight.
M_calcPeriodRatio_NoOnWrap(currentT, onT, periodT) ==
    LET c == IF periodT > currentT THEN (currentT + DAY) % ULONG ELSE currentT
    IN  FDiv((c - onT) % ULONG, (c - periodT) % ULONG)

\* Mutant of calcPeriodRatio: the time before the on-period is counted.
M_calcPeriodRatio_OffTime(currentT, onT, periodT) ==
    LET c == IF periodT > currentT THEN (currentT + DAY) % ULONG ELSE currentT
        o == IF periodT > onT THEN (onT + DAY) % ULONG ELSE onT
    IN  FDiv((o - periodT) % ULONG, (c - periodT) % ULONG)

\* ----------------------------------------------------- duty-cycle estimator
calcPeriodRatio(currentT, onT, periodT) ==
    LET c == IF periodT > currentT THEN (currentT + DAY) % ULONG ELSE currentT
        o == IF periodT > onT THEN (onT + DAY) % ULONG ELSE onT
    IN  FDiv((c - o) % ULONG, (c - periodT) % ULONG)

\* Mutant of calcMovingAverage: the count is not capped at maxN.
M_calcMovingAverage_NoCap(mA, Xi, count) ==
    [mA |-> FDivInt(FAdd(FMulInt(mA, count), Xi), count + 1),
     count |-> count + 1]

\* Mutant of calcMovingAverage: the old average is weighted with the new count.
M_calcMovingAverage_WeightsCount(mA, Xi, count) ==
    LET n == IF count < maxN THEN count + 1 ELSE count
    IN  [mA |-> FDivInt(FAdd(FMulInt(mA, n), Xi), n), count |-> n]

\* count is passed by reference: the result carries its new value
calcMovingAverage(mA, Xi, count) ==
    LET n == IF count < maxN THEN count + 1 ELSE count
    IN  [mA |-> FDivInt(FAdd(FMulInt(mA, n - 1), Xi), n), count |-> n]

\* desiredRatio = desiredPercent / 100.0
RatioOf(pct) == FDiv(pct, 100)

\* -------------------------------------------------------------------- state
VARIABLES
    pc,                 \* "boot" before setup() has run, "loop" after
    rtc,                \* the DS1307's time, as rtc.now().unixtime() reads it
    pins,               \* levels of the four sensor pins at the last read
    currentTime, doorComplete,
    SSbedroom, SSoffice, SSkitchen, SSfurnace, SSrunning,
    relayControlPin,
    runState,
    startState,         \* history: runState as the last pass of loop() found it
    doorOpenSince,      \* history: time of the pass that first read the door open
                        \* in the current open span, 0 while it reads closed
    onPeriodStart, totPeriodStart,
    actualRatio, movingAverage, averageCount,
    adjustmentEnabled, desiredPercent, desiredRatio,
    logData, firstTime, loggedTime, logCount, offset,
    sdFile,             \* history: the records appended to the SD card's file,
                        \* each with its timestamp, the number of its appends
                        \* the card took, and logData as line 564 read it
    sdError             \* history: the number of the append of a log record
                        \* that the card refused in the last pass (offset is
                        \* -1 at line 617), 0 when none was refused

vars == <<pc, rtc, pins, currentTime, doorComplete,
          SSbedroom, SSoffice, SSkitchen, SSfurnace, SSrunning,
          relayControlPin, runState, startState, doorOpenSince,
          onPeriodStart, totPeriodStart,
          actualRatio, movingAverage, averageCount,
          adjustmentEnabled, desiredPercent, desiredRatio,
          logData, firstTime, loggedTime, logCount, offset, sdFile,
          sdError>>

Levels == {LOW, HIGH}
PinSets == [bedroom : Levels, office : Levels, kitchen : Levels, furnace : Levels]
AllLow == [bedroom |-> LOW, office |-> LOW, kitchen |-> LOW, furnace |-> LOW]

\* Andee.appendSD: -1 on failure, otherwise the file offset (abstracted to 1)
appendFailed == -1
appendDone == 1
\* appends that make up the header and one log record
headerAppends == 6
recordAppends == 9

\* The globals as their initialisers leave them (uninitialised globals are 0).
Init ==
    /\ pc = "boot"
    /\ rtc = T0
    /\ pins = AllLow
    /\ currentTime = 0
    /\ doorComplete = 0
    /\ SSbedroom = FALSE /\ SSoffice = FALSE /\ SSkitchen = FALSE
    /\ SSfurnace = FALSE /\ SSrunning = FALSE
    /\ relayControlPin = FLOATING
    /\ runState = notRunning
    /\ startState = notRunning
    /\ doorOpenSince = 0
    /\ onPeriodStart = 0
    /\ totPeriodStart = 0
    /\ actualRatio = Zero
    /\ movingAverage = Zero
    /\ averageCount = 0
    /\ adjustmentEnabled = FALSE
    /\ desiredPercent = 0
    /\ desiredRatio = Zero
    /\ logData = FALSE
    /\ firstTime = TRUE
    /\ loggedTime = 0
    /\ logCount = 0
    /\ offset = 0
    /\ sdFile = << >>
    /\ sdError = 0

\* writeHeadersToFile(): the appends stop at the first failure, which turns
\* logging off; ok is the number of appends the SD card accepts.
HeadersLogData(ok) == ok >= headerAppends

\* -------------------------------------------------------------------- setup
\* Mutant of SetupRunState: the furnace pin is not consulted.
M_SetupRunState_NoFurnace(p) ==
    IF p.bedroom = LOW /\ p.office = LOW /\ p.kitchen = LOW
    THEN [runState |-> Running, SSrunning |-> TRUE, relay |-> LOW,
          movingAverage |-> movingAverage, actualRatio |-> actualRatio]
    ELSE [runState |-> notRunning, SSrunning |-> FALSE, relay |-> HIGH,
          movingAverage |-> Zero, actualRatio |-> Zero]

SetupRunState(p) ==
    IF p.bedroom = LOW /\ p.office = LOW /\ p.kitchen = LOW /\ p.furnace = LOW
    THEN [runState |-> Running, SSrunning |-> TRUE, relay |-> LOW,
          movingAverage |-> movingAverage, actualRatio |-> actualRatio]
    ELSE [runState |-> notRunning, SSrunning |-> FALSE, relay |-> HIGH,
          movingAverage |-> Zero, actualRatio |-> Zero]

Setup(p, pct, stat, hdrOk) ==
    /\ pc = "boot"
    /\ pc' = "loop"
    /\ pins' = p
    /\ desiredPercent' = pct
    /\ desiredRatio' = RatioOf(pct)
    /\ logData' = (stat /\ HeadersLogData(hdrOk))
    /\ offset' = IF stat /\ HeadersLogData(hdrOk) THEN appendDone ELSE 0
    /\ LET r == SetupRunState(p) IN
         /\ runState' = r.runState
         /\ SSrunning' = r.SSrunning
         /\ relayControlPin' = r.relay
         /\ movingAverage' = r.movingAverage
         /\ actualRatio' = r.actualRatio
    /\ UNCHANGED <<rtc, currentTime, doorComplete, SSbedroom, SSoffice,
                   SSkitchen, SSfurnace, startState, doorOpenSince,
                   onPeriodStart,
                   totPeriodStart, averageCount, adjustmentEnabled,
                   firstTime, loggedTime, logCount, sdFile, sdError>>

\* Mutant of DoorRead: an edge before the armed deadline has expired does not
\* arm it again.
M_DoorRead_OneShot(k, t) ==
    IF k = LOW
    THEN [SSkitchen |-> FALSE,
          doorComplete |-> IF SSkitchen /\ t > doorComplete
                           THEN (t + doorDelay) % ULONG ELSE doorComplete]
    ELSE [SSkitchen |-> TRUE,
          doorComplete |-> IF ~SSkitchen /\ t > doorComplete
                           THEN (t + doorDelay) % ULONG ELSE doorComplete]

\* --------------------------------------------------------------------- loop
\* Door sensor: an edge of the raw input arms doorComplete.
DoorRead(k, t) ==
    IF k = LOW
    THEN [SSkitchen |-> FALSE,
          doorComplete |-> IF SSkitchen THEN (t + doorDelay) % ULONG
                           ELSE doorComplete]
    ELSE [SSkitchen |-> TRUE,
          doorComplete |-> IF ~SSkitchen THEN (t + doorDelay) % ULONG
                           ELSE doorComplete]

\* Mutant of OffCondition: the open door counts at once, without its delay.
M_OffCondition_NoDoorDelay(s) ==
    s.SSbedroom \/ s.SSoffice \/ s.SSfurnace \/ s.SSkitchen

\* SSbedroom || SSoffice || SSfurnace || SSkitchen && (currentTime > doorComplete)
OffCondition(s) ==
    s.SSbedroom \/ s.SSoffice \/ s.SSfurnace
        \/ (s.SSkitchen /\ s.currentTime > s.doorComplete)

\* Mutant of OnCondition: the door delay is not waited for.
M_OnCondition_NoDoorDelay(s) ==
    ~s.SSbedroom /\ ~s.SSoffice /\ ~s.SSfurnace /\ ~s.SSkitchen

\* !SSbedroom && !SSoffice && !SSfurnace && (!SSkitchen && (currentTime > doorComplete))
OnCondition(s) ==
    ~s.SSbedroom /\ ~s.SSoffice /\ ~s.SSfurnace
        /\ (~s.SSkitchen /\ s.currentTime > s.doorComplete)

\* Mutant of FoldAndReset: the period start is not reset.
M_FoldAndReset_KeepsPeriod(s, ratio) ==
    LET m == calcMovingAverage(s.movingAverage, ratio, s.averageCount)
    IN  [s EXCEPT !.movingAverage = m.mA, !.averageCount = m.count,
                  !.actualRatio = Zero]

\* The off path shared by the cases: fold the ratio, reset the period.
FoldAndReset(s, ratio) ==
    LET m == calcMovingAverage(s.movingAverage, ratio, s.averageCount)
    IN  [s EXCEPT !.movingAverage = m.mA, !.averageCount = m.count,
                  !.actualRatio = Zero, !.totPeriodStart = s.currentTime]

\* Mutant of CaseRunning: an off-request always stops the fan, the duty
\* target is not consulted.
M_CaseRunning_NoHold(s) ==
    LET r  == calcPeriodRatio(s.currentTime, s.onPeriodStart, s.totPeriodStart)
        s1 == [s EXCEPT !.actualRatio = r]
        s2 == IF s.adjustmentEnabled /\ FGreater(r, s.desiredRatio)
              THEN [s1 EXCEPT !.runState = notRunningAdjusting]
              ELSE s1
    IN  IF s.SSbedroom \/ s.SSoffice \/ s.SSfurnace
              \/ (s.SSkitchen /\ s.currentTime > s.doorComplete)
        THEN [s2 EXCEPT !.runState = notRunning, !.SSrunning = FALSE,
                        !.movingAverage = calcMovingAverage(
                            s.movingAverage, r, s.averageCount).mA,
                        !.averageCount = calcMovingAverage(
                            s.movingAverage, r, s.averageCount).count,
                        !.actualRatio = Zero,
                        !.totPeriodStart = s.currentTime,
                        !.relayControlPin = HIGH]
        ELSE s2

\* Mutant of CaseRunning: a ratio above the target moves to RunningAdjusting.
M_CaseRunning_AboveToRunningAdjusting(s) ==
    LET r  == calcPeriodRatio(s.currentTime, s.onPeriodStart, s.totPeriodStart)
        s1 == [s EXCEPT !.actualRatio = r]
        s2 == IF s.adjustmentEnabled /\ FGreater(r, s.desiredRatio)
              THEN [s1 EXCEPT !.runState = RunningAdjusting]
              ELSE s1
    IN  IF s.SSbedroom \/ s.SSoffice \/ s.SSfurnace
              \/ (s.SSkitchen /\ s.currentTime > s.doorComplete)
        THEN IF s.adjustmentEnabled /\ FLess(r, s.desiredRatio)
             THEN [s2 EXCEPT !.runState = RunningAdjusting]
             ELSE [s2 EXCEPT !.runState = notRunning, !.SSrunning = FALSE,
                             !.movingAverage = calcMovingAverage(
                                 s.movingAverage, r, s.averageCount).mA,
                             !.averageCount = calcMovingAverage(
                                 s.movingAverage, r, s.averageCount).count,
                             !.actualRatio = Zero,
                             !.totPeriodStart = s.currentTime,
                             !.relayControlPin = HIGH]
        ELSE s2

\* Mutant of CaseRunning: a ratio below the target holds the fan on whether or
\* not adjustment is enabled.
M_CaseRunning_HoldsWithoutAdjustment(s) ==
    LET r  == calcPeriodRatio(s.currentTime, s.onPeriodStart, s.totPeriodStart)
        s1 == [s EXCEPT !.actualRatio = r]
        s2 == IF s.adjustmentEnabled /\ FGreater(r, s.desiredRatio)
              THEN [s1 EXCEPT !.runState = notRunningAdjusting]
              ELSE s1
    IN  IF s.SSbedroom \/ s.SSoffice \/ s.SSfurnace
              \/ (s.SSkitchen /\ s.currentTime > s.doorComplete)
        THEN IF FLess(r, s.desiredRatio)
             THEN [s2 EXCEPT !.runState = RunningAdjusting]
             ELSE [s2 EXCEPT !.runState = notRunning, !.SSrunning = FALSE,
                             !.movingAverage = calcMovingAverage(
                                 s.movingAverage, r, s.averageCount).mA,
                             !.averageCount = calcMovingAverage(
                                 s.movingAverage, r, s.averageCount).count,
                             !.actualRatio = Zero,
                             !.totPeriodStart = s.currentTime,
                             !.relayControlPin = HIGH]
        ELSE s2

CaseRunning(s) ==
    LET r  == calcPeriodRatio(s.currentTime, s.onPeriodStart, s.totPeriodStart)
        s1 == [s EXCEPT !.actualRatio = r]
        s2 == IF s.adjustmentEnabled /\ FGreater(r, s.desiredRatio)
              THEN [s1 EXCEPT !.runState = notRunningAdjusting]
              ELSE s1
    IN  IF OffCondition(s)
        THEN IF s.adjustmentEnabled /\ FLess(r, s.desiredRatio)
             THEN [s2 EXCEPT !.runState = RunningAdjusting]
             ELSE [FoldAndReset(s2, r) EXCEPT !.runState = notRunning,
                                              !.SSrunning = FALSE,
                                              !.relayControlPin = HIGH]
        ELSE s2

\* Mutant of CaseNotRunning: the fan is started into RunningAdjusting.
M_CaseNotRunning_StartsAdjusting(s) ==
    IF ~s.SSbedroom /\ ~s.SSoffice /\ ~s.SSfurnace
         /\ (~s.SSkitchen /\ s.currentTime > s.doorComplete)
    THEN [s EXCEPT !.runState = RunningAdjusting, !.SSrunning = TRUE,
                   !.onPeriodStart = s.currentTime, !.relayControlPin = LOW]
    ELSE s

\* Mutant of CaseNotRunning: the start of the on-period is not recorded.
M_CaseNotRunning_KeepsOnStart(s) ==
    IF ~s.SSbedroom /\ ~s.SSoffice /\ ~s.SSfurnace
         /\ (~s.SSkitchen /\ s.currentTime > s.doorComplete)
    THEN [s EXCEPT !.runState = Running, !.SSrunning = TRUE,
                   !.relayControlPin = LOW]
    ELSE s

CaseNotRunning(s) ==
    IF OnCondition(s)
    THEN [s EXCEPT !.runState = Running, !.SSrunning = TRUE,
                   !.onPeriodStart = s.currentTime, !.relayControlPin = LOW]
    ELSE s

\* Mutant of CaseRunningAdjusting: switching adjustment off does not end it.
M_CaseRunningAdjusting_RatioOnly(s) ==
    LET r == calcPeriodRatio(s.currentTime, s.onPeriodStart, s.totPeriodStart)
    IN  IF FGreater(r, s.desiredRatio)
        THEN [s EXCEPT !.movingAverage = calcMovingAverage(
                           s.movingAverage, r, s.averageCount).mA,
                       !.averageCount = calcMovingAverage(
                           s.movingAverage, r, s.averageCount).count,
                       !.actualRatio = Zero,
                       !.totPeriodStart = s.currentTime,
                       !.relayControlPin = HIGH,
                       !.runState = notRunning,
                       !.SSrunning = FALSE]
        ELSE [s EXCEPT !.actualRatio = r]

\* Mutant of CaseRunningAdjusting: actualRatio is not reset on the way out.
M_CaseRunningAdjusting_KeepsRatio(s) ==
    LET r == calcPeriodRatio(s.currentTime, s.onPeriodStart, s.totPeriodStart)
    IN  IF FGreater(r, s.desiredRatio) \/ ~s.adjustmentEnabled
        THEN [s EXCEPT !.movingAverage = calcMovingAverage(
                           s.movingAverage, r, s.averageCount).mA,
                       !.averageCount = calcMovingAverage(
                           s.movingAverage, r, s.averageCount).count,
                       !.actualRatio = r,
                       !.totPeriodStart = s.currentTime,
                       !.relayControlPin = HIGH,
                       !.runState = notRunning,
                       !.SSrunning = FALSE]
        ELSE [s EXCEPT !.actualRatio = r]

CaseRunningAdjusting(s) ==
    LET r == calcPeriodRatio(s.currentTime, s.onPeriodStart, s.totPeriodStart)
    IN  IF FGreater(r, s.desiredRatio) \/ ~s.adjustmentEnabled
        THEN [FoldAndReset(s, r) EXCEPT !.relayControlPin = HIGH,
                                        !.runState = notRunning,
                                        !.SSrunning = FALSE]
        ELSE [s EXCEPT !.actualRatio = r]

\* Mutant of CaseNotRunningAdjusting: the off path is taken on every pass.
M_CaseNotRunningAdjusting_AlwaysOff(s) ==
    LET s1 == [s EXCEPT !.relayControlPin = HIGH, !.SSrunning = FALSE]
        m  == calcMovingAverage(s1.movingAverage, s1.actualRatio, s1.averageCount)
    IN  [s1 EXCEPT !.movingAverage = m.mA, !.averageCount = m.count,
                   !.actualRatio = Zero, !.totPeriodStart = s.currentTime,
                   !.runState = notRunning]

\* Mutant of CaseNotRunningAdjusting: the relay is not written.
M_CaseNotRunningAdjusting_KeepsRelay(s) ==
    IF s.SSbedroom \/ s.SSoffice \/ s.SSfurnace
          \/ (s.SSkitchen /\ s.currentTime > s.doorComplete)
    THEN [s EXCEPT !.movingAverage = calcMovingAverage(
                       s.movingAverage, s.actualRatio, s.averageCount).mA,
                   !.averageCount = calcMovingAverage(
                       s.movingAverage, s.actualRatio, s.averageCount).count,
                   !.actualRatio = Zero, !.totPeriodStart = s.currentTime,
                   !.runState = notRunning]
    ELSE s

\* Mutant of CaseNotRunningAdjusting: the fan status flag is not cleared.
M_CaseNotRunningAdjusting_KeepsStatus(s) ==
    LET s1 == [s EXCEPT !.relayControlPin = HIGH]
    IN  IF s.SSbedroom \/ s.SSoffice \/ s.SSfurnace
              \/ (s.SSkitchen /\ s.currentTime > s.doorComplete)
        THEN [s1 EXCEPT !.movingAverage = calcMovingAverage(
                            s.movingAverage, s.actualRatio, s.averageCount).mA,
                        !.averageCount = calcMovingAverage(
                            s.movingAverage, s.actualRatio, s.averageCount).count,
                        !.actualRatio = Zero, !.totPeriodStart = s.currentTime,
                        !.runState = notRunning]
        ELSE s1

CaseNotRunningAdjusting(s) ==
    LET s1 == [s EXCEPT !.relayControlPin = HIGH, !.SSrunning = FALSE]
    IN  IF OffCondition(s)
        THEN [FoldAndReset(s1, s1.actualRatio) EXCEPT !.runState = notRunning]
        ELSE s1

\* switch (runState)
RunSwitch(s) ==
    CASE s.runState = Running -> CaseRunning(s)
      [] s.runState = notRunning -> CaseNotRunning(s)
      [] s.runState = RunningAdjusting -> CaseRunningAdjusting(s)
      [] s.runState = notRunningAdjusting -> CaseNotRunningAdjusting(s)
      [] OTHER -> s

\* Mutant of LogWrite: the logging interval is not waited for.
M_LogWrite_EveryPass(t, ld, off, sdOk) ==
    IF ld /\ off # appendFailed
    THEN IF ~firstTime
         THEN [loggedTime |-> t, firstTime |-> firstTime,
               logCount |-> IF sdOk >= recordAppends
                            THEN logCount + 1 ELSE logCount,
               offset |-> IF sdOk >= recordAppends
                          THEN appendDone ELSE appendFailed,
               appends |-> IF sdOk >= recordAppends
                           THEN recordAppends ELSE sdOk,
               refused |-> IF sdOk >= recordAppends THEN 0 ELSE sdOk + 1]
         ELSE [loggedTime |-> t, firstTime |-> FALSE,
               logCount |-> logCount, offset |-> off, appends |-> 0,
               refused |-> 0]
    ELSE [loggedTime |-> loggedTime, firstTime |-> firstTime,
          logCount |-> logCount, offset |-> off, appends |-> 0,
               refused |-> 0]

\* Mutant of LogWrite: a record that lost an append is counted as written.
M_LogWrite_CountsPartial(t, ld, off, sdOk) ==
    IF (t >= (loggedTime + interval) % ULONG \/ firstTime) /\ ld
           /\ off # appendFailed
    THEN IF ~firstTime
         THEN [loggedTime |-> t, firstTime |-> firstTime,
               logCount |-> logCount + 1,
               offset |-> IF sdOk >= recordAppends
                          THEN appendDone ELSE appendFailed,
               appends |-> IF sdOk >= recordAppends
                           THEN recordAppends ELSE sdOk,
               refused |-> IF sdOk >= recordAppends THEN 0 ELSE sdOk + 1]
         ELSE [loggedTime |-> t, firstTime |-> FALSE,
               logCount |-> logCount, offset |-> off, appends |-> 0,
               refused |-> 0]
    ELSE [loggedTime |-> loggedTime, firstTime |-> firstTime,
          logCount |-> logCount, offset |-> off, appends |-> 0,
          refused |-> 0]

\* The log record write: [loggedTime, firstTime, logCount, offset] after it,
\* the number of appends of a record the SD card took in this pass, and the
\* number of the append it refused (0 for none).  ld and off are logData and
\* offset as the log button left them, sdOk the number of appends of the
\* record the SD card takes before it refuses one.
LogWrite(t, ld, off, sdOk) ==
    IF (t >= (loggedTime + interval) % ULONG \/ firstTime) /\ ld
           /\ off # appendFailed
    THEN IF ~firstTime
         THEN [loggedTime |-> t, firstTime |-> firstTime,
               logCount |-> IF sdOk >= recordAppends
                            THEN logCount + 1 ELSE logCount,
               offset |-> IF sdOk >= recordAppends
                          THEN appendDone ELSE appendFailed,
               appends |-> IF sdOk >= recordAppends
                           THEN recordAppends ELSE sdOk,
               refused |-> IF sdOk >= recordAppends THEN 0 ELSE sdOk + 1]
         ELSE [loggedTime |-> t, firstTime |-> FALSE,
               logCount |-> logCount, offset |-> off, appends |-> 0,
               refused |-> 0]
    ELSE [loggedTime |-> loggedTime, firstTime |-> firstTime,
          logCount |-> logCount, offset |-> off, appends |-> 0,
               refused |-> 0]

\* One pass of loop().  d: seconds since the last pass; pressClock/devTime:
\* the set-clock button and the time it sets; p: the pin levels read;
\* slider: the slider's value; pressAdj, pressLog: the two toggle buttons;
\* hdrOk, sdOk: appends the SD card accepts for the header and the record.
Loop(d, pressClock, devTime, p, slider, pressAdj, pressLog, hdrOk, sdOk) ==
    LET \* btnToggleLog
        ld0  == IF pressLog
                THEN (IF logData THEN FALSE ELSE HeadersLogData(hdrOk))
                ELSE logData
        off0 == IF pressLog /\ ~logData
                THEN (IF HeadersLogData(hdrOk) THEN appendDone ELSE 0)
                ELSE offset
        \* btnSetClock, rtc.now()
        t    == IF pressClock THEN devTime ELSE rtc + d
        \* btnEnableAdjustment
        adj  == IF pressAdj THEN ~adjustmentEnabled ELSE adjustmentEnabled
        dr   == IF desiredPercent # slider THEN RatioOf(slider) ELSE desiredRatio
        on0  == IF onPeriodStart = 0 /\ runState = Running
                THEN t ELSE onPeriodStart
        door == DoorRead(p.kitchen, t)
        tot0 == IF totPeriodStart = 0 THEN t ELSE totPeriodStart
        s    == [runState |-> runState, SSrunning |-> SSrunning,
                 relayControlPin |-> relayControlPin,
                 actualRatio |-> actualRatio, movingAverage |-> movingAverage,
                 averageCount |-> averageCount,
                 onPeriodStart |-> on0, totPeriodStart |-> tot0,
                 currentTime |-> t, doorComplete |-> door.doorComplete,
                 SSbedroom |-> (p.bedroom # LOW), SSoffice |-> (p.office # LOW),
                 SSkitchen |-> door.SSkitchen, SSfurnace |-> (p.furnace # LOW),
                 adjustmentEnabled |-> adj, desiredRatio |-> dr]
    IN  /\ pc = "loop"
        /\ t >= T0 /\ t < ULONG
        \* n: the state the switch leaves; lg: the state the log write leaves
        /\ \E n \in {RunSwitch(s)}, lg \in {LogWrite(t, ld0, off0, sdOk)} :
            /\ n.averageCount <= MaxFolds
            /\ lg.logCount <= MaxLogs
            /\ pc' = pc
            /\ rtc' = t
            /\ pins' = p
            /\ currentTime' = t
            /\ doorComplete' = n.doorComplete
            /\ SSbedroom' = n.SSbedroom
            /\ SSoffice' = n.SSoffice
            /\ SSkitchen' = n.SSkitchen
            /\ SSfurnace' = n.SSfurnace
            /\ SSrunning' = n.SSrunning
            /\ relayControlPin' = n.relayControlPin
            /\ startState' = runState
            /\ doorOpenSince' = IF p.kitchen = LOW THEN 0
                                ELSE IF SSkitchen THEN doorOpenSince ELSE t
            /\ runState' = n.runState
            /\ onPeriodStart' = n.onPeriodStart
            /\ totPeriodStart' = n.totPeriodStart
            /\ actualRatio' = n.actualRatio
            /\ movingAverage' = n.movingAverage
            /\ averageCount' = n.averageCount
            /\ adjustmentEnabled' = adj
            /\ desiredPercent' = slider
            /\ desiredRatio' = dr
            /\ loggedTime' = lg.loggedTime
            /\ firstTime' = lg.firstTime
            /\ logCount' = lg.logCount
            /\ logData' = (ld0 /\ lg.offset # appendFailed)
            /\ offset' = IF lg.offset = appendFailed THEN 0 ELSE lg.offset
            /\ sdFile' = IF lg.appends > 0
                          THEN Append(sdFile, [time |-> t, appends |-> lg.appends,
                                               logData |-> ld0])
                          ELSE sdFile
            /\ sdError' = lg.refused

\* ------------------------------------------------------------ specification
\* The controller with logging left off: the clock never runs backwards, the
\* set-clock and log buttons are not pressed.
Boot ==
    \E p \in PinSets, pct \in Percents :
        Setup(p, pct, FALSE, headerAppends)

Cycle ==
    \E d \in TimeSteps, p \in PinSets, slider \in Percents, pressAdj \in BOOLEAN :
        /\ rtc + d <= MaxTime
        /\ Loop(d, FALSE, 0, p, slider, pressAdj, FALSE, headerAppends,
                recordAppends)

Next == Boot \/ Cycle

Spec == Init /\ [][Next]_vars

\* The controller with logging: the log button, the logging status setup()
\* reads, an SD card that may refuse an append of the header or of a record;
\* the clock never runs backwards.  The steps let a pass fall short of, on and
\* past the logging interval.
LogSteps == {0, 150, interval}
LogPins == {AllLow, [AllLow EXCEPT !.furnace = HIGH]}
HeaderOutcomes == {0, headerAppends}
RecordOutcomes == {0, 4, recordAppends - 1, recordAppends}

BootLog ==
    \E p \in LogPins, stat \in BOOLEAN, hdrOk \in HeaderOutcomes :
        Setup(p, defaultPercent, stat, hdrOk)

CycleLog ==
    \E d \in LogSteps, p \in LogPins, pressLog \in BOOLEAN,
       hdrOk \in HeaderOutcomes, sdOk \in RecordOutcomes :
        /\ rtc + d <= MaxLogTime
        /\ Loop(d, FALSE, 0, p, defaultPercent, FALSE, pressLog, hdrOk, sdOk)

NextLog == BootLog \/ CycleLog

SpecLog == Init /\ [][NextLog]_vars

\* calcMovingAverage on its own: samples are folded one after the other into
\* the moving average, from the average and count the initialisers leave.
\* actualRatio holds the sample folded last.
FoldSamples == {Zero, <<1, 2>>, <<1, 1>>}

InitFold ==
    /\ pc = "fold"
    /\ rtc = T0
    /\ pins = AllLow
    /\ currentTime = 0
    /\ doorComplete = 0
    /\ SSbedroom = FALSE /\ SSoffice = FALSE /\ SSkitchen = FALSE
    /\ SSfurnace = FALSE /\ SSrunning = FALSE
    /\ relayControlPin = FLOATING
    /\ runState = notRunning
    /\ startState = notRunning
    /\ doorOpenSince = 0
    /\ onPeriodStart = 0
    /\ totPeriodStart = 0
    /\ actualRatio = Zero
    /\ movingAverage = Zero
    /\ averageCount = 0
    /\ adjustmentEnabled = FALSE
    /\ desiredPercent = 0
    /\ desiredRatio = Zero
    /\ logData = FALSE
    /\ firstTime = TRUE
    /\ loggedTime = 0
    /\ logCount = 0
    /\ offset = 0
    /\ sdFile = << >>
    /\ sdError = 0

\* movingAverage = calcMovingAverage(movingAverage, actualRatio, averageCount)
Fold(Xi) ==
    /\ pc = "fold"
    /\ movingAverage[2] <= MaxDenominator
    /\ \E m \in {calcMovingAverage(movingAverage, Xi, averageCount)} :
          /\ movingAverage' = m.mA
          /\ averageCount' = m.count
    /\ actualRatio' = Xi
    /\ UNCHANGED <<pc, rtc, pins, currentTime, doorComplete, SSbedroom,
                   SSoffice, SSkitchen, SSfurnace, SSrunning, relayControlPin,
                   runState, startState, doorOpenSince, onPeriodStart,
                   totPeriodStart, adjustmentEnabled, desiredPercent,
                   desiredRatio, logData, firstTime, loggedTime, logCount,
                   offset, sdFile, sdError>>

NextFold == \E Xi \in FoldSamples : Fold(Xi)

SpecFold == InitFold /\ [][NextFold]_vars

\* calcPeriodRatio on its own: the two period starts are drawn from times of
\* day on both sides of midnight, and the ratio is computed at one current
\* time after the other.
RatioTimes == {100, 500, 43200, 85000, 86000, 86300}

InitRatio ==
    /\ pc = "ratio"
    /\ rtc = T0
    /\ pins = AllLow
    /\ currentTime = 0
    /\ doorComplete = 0
    /\ SSbedroom = FALSE /\ SSoffice = FALSE /\ SSkitchen = FALSE
    /\ SSfurnace = FALSE /\ SSrunning = FALSE
    /\ relayControlPin = FLOATING
    /\ runState = notRunning
    /\ startState = notRunning
    /\ doorOpenSince = 0
    /\ onPeriodStart \in RatioTimes
    /\ totPeriodStart \in RatioTimes
    /\ actualRatio = Zero
    /\ movingAverage = Zero
    /\ averageCount = 0
    /\ adjustmentEnabled = FALSE
    /\ desiredPercent = 0
    /\ desiredRatio = Zero
    /\ logData = FALSE
    /\ firstTime = TRUE
    /\ loggedTime = 0
    /\ logCount = 0
    /\ offset = 0
    /\ sdFile = << >>
    /\ sdError = 0

\* actualRatio = calcPeriodRatio(currentTime, onPeriodStart, totPeriodStart)
Ratio(t) ==
    /\ pc = "ratio"
    /\ rtc' = t
    /\ currentTime' = t
    /\ actualRatio' = calcPeriodRatio(t, onPeriodStart, totPeriodStart)
    /\ UNCHANGED <<pc, pins, doorComplete, SSbedroom, SSoffice, SSkitchen,
                   SSfurnace, SSrunning, relayControlPin, runState,
                   startState, doorOpenSince, onPeriodStart, totPeriodStart,
                   movingAverage, averageCount, adjustmentEnabled,
                   desiredPercent, desiredRatio, logData, firstTime,
                   loggedTime, logCount, offset, sdFile, sdError>>

NextRatio == \E t \in RatioTimes : Ratio(t)

SpecRatio == InitRatio /\ [][NextRatio]_vars

\* The controller with the set-clock button: a pass in which it is pressed
\* reads the time the device sent (setRTC), which may lie before the time of
\* the pass before.  A difference of times that wraps is a value near ULONG,
\* and two such ratios cannot be added within TLC's 32 bits: the passes stop
\* once MaxFolds samples have been folded.
DeviceTimes == {T0, 61, MaxTime}

BootClock ==
    \E p \in LogPins : Setup(p, defaultPercent, FALSE, headerAppends)

CycleClock ==
    \E d \in TimeSteps, p \in LogPins, pressAdj \in BOOLEAN :
        /\ rtc + d <= MaxTime
        /\ averageCount < MaxFolds
        /\ Loop(d, FALSE, 0, p, defaultPercent, pressAdj, FALSE, headerAppends,
                recordAppends)

SetClock ==
    \E devTime \in DeviceTimes, p \in LogPins :
        /\ averageCount < MaxFolds
        /\ Loop(0, TRUE, devTime, p, defaultPercent, FALSE, FALSE, headerAppends,
                recordAppends)

NextClock == BootClock \/ CycleClock \/ SetClock

SpecClock == Init /\ [][NextClock]_vars

\* ------------------------------------------------------------------- claims
\* The relay module is active low: digitalWrite(relayControlPin, LOW) runs
\* the fan.
RelayOn == relayControlPin = LOW
RelayOff == relayControlPin = HIGH

\* A step taken from a state satisfying InLoop is one pass of loop().
InLoop == pc = "loop"
\* The state is the one a pass of loop() left.
AfterCycle == pc = "loop" /\ currentTime >= T0
\* The state is the one setup() left: no pass of loop() has read the clock.
AfterSetup == pc = "loop" /\ currentTime = 0

AllClear == ~SSbedroom /\ ~SSoffice /\ ~SSkitchen /\ ~SSfurnace
DoorDelayElapsed == currentTime > doorComplete
\* An off-request as the cycle that produced this state read it.
OffRequest ==
    SSbedroom \/ SSoffice \/ SSfurnace \/ (SSkitchen /\ DoorDelayElapsed)

\* The ratio a pass of loop() starting in Running or RunningAdjusting
\* computes (totPeriodStart is set to the current time first when it is 0).
CycleRatio ==
    calcPeriodRatio(currentTime', onPeriodStart',
                    IF totPeriodStart = 0 THEN currentTime' ELSE totPeriodStart)

\* The pass folded the ratio it computed into the moving average.
FoldedCycleRatio ==
    LET m == calcMovingAverage(movingAverage, CycleRatio, averageCount)
    IN  movingAverage' = m.mA /\ averageCount' = m.count

\* The off path: folded, ratio and period reset, relay OFF, NotRunning.
OffPathTaken ==
    /\ runState' = notRunning
    /\ RelayOff'
    /\ FoldedCycleRatio
    /\ actualRatio' = Zero
    /\ totPeriodStart' = currentTime'

\* C1: a cycle that starts in Running with adjustmentEnabled false and an
\* off-request asserted (bedroom, office or furnace, or the door open with
\* the door delay elapsed) ends in NotRunning with the relay OFF, the period's
\* ratio folded into movingAverage, actualRatio 0 and totPeriodStart set to
\* the current time.
C1_RunningOffPath ==
    [][(InLoop /\ runState = Running /\ ~adjustmentEnabled' /\ OffRequest')
         => OffPathTaken]_vars

C1_Witness ==
    /\ AfterCycle /\ startState = Running /\ runState = notRunning
    /\ ~adjustmentEnabled /\ SSfurnace /\ ~SSbedroom /\ ~SSoffice /\ ~SSkitchen
    /\ RelayOff /\ averageCount = 1 /\ movingAverage = <<1, 2>>
    /\ actualRatio = Zero /\ totPeriodStart = currentTime

\* C2: at controller start the run state is Running with the relay ON exactly
\* when all four sensor pins read clear; otherwise it is NotRunning with the
\* relay OFF and actualRatio and movingAverage 0.
C2_InitialRunState ==
    AfterSetup =>
        /\ (runState = Running /\ RelayOn) <=> (pins = AllLow)
        /\ (pins # AllLow) =>
              /\ runState = notRunning /\ RelayOff
              /\ actualRatio = Zero /\ movingAverage = Zero

C2_Witness ==
    AfterSetup /\ pins = AllLow /\ runState = Running /\ RelayOn

\* C3: a cycle that starts in Running with adjustmentEnabled true, the
\* computed ratio strictly below desiredRatio and an off-request asserted ends
\* in RunningAdjusting with the relay still ON and movingAverage, averageCount
\* and totPeriodStart unchanged.
C3_KeepRunningBelowTarget ==
    [][(InLoop /\ runState = Running /\ adjustmentEnabled'
          /\ FLess(CycleRatio, desiredRatio') /\ OffRequest')
         => /\ runState' = RunningAdjusting
            /\ RelayOn'
            /\ UNCHANGED <<movingAverage, averageCount, totPeriodStart>>]_vars

C3_Witness ==
    /\ AfterCycle /\ startState = Running /\ runState = RunningAdjusting
    /\ adjustmentEnabled /\ OffRequest /\ RelayOn
    /\ actualRatio = <<60, 121>> /\ desiredPercent = 50

C5_AsStated ==
    [][(InLoop /\ runState = notRunning)
         => /\ (runState' = Running) <=> (AllClear' /\ DoorDelayElapsed')
            /\ (runState' = Running)
                 => (RelayOn' /\ onPeriodStart' = currentTime')
            /\ (runState' # Running)
                 => UNCHANGED <<runState, relayControlPin, onPeriodStart,
                                totPeriodStart, movingAverage, averageCount>>]_vars

\* C5 (amended): as stated, except that totPeriodStart is unchanged only once
\* it is set: the first cycle after start sets it from 0 to the current time.
C5_NotRunningStart ==
    [][(InLoop /\ runState = notRunning)
         => /\ (runState' = Running) <=> (AllClear' /\ DoorDelayElapsed')
            /\ (runState' = Running)
                 => (RelayOn' /\ onPeriodStart' = currentTime')
            /\ (runState' # Running)
                 => /\ UNCHANGED <<runState, relayControlPin, onPeriodStart,
                                   movingAverage, averageCount>>
                    /\ totPeriodStart' = IF totPeriodStart = 0
                                         THEN currentTime' ELSE totPeriodStart]_vars

\* The fan was started in this pass, after a wait for the door delay.
C5_Witness ==
    /\ AfterCycle /\ startState = notRunning /\ runState = Running /\ RelayOn
    /\ AllClear /\ onPeriodStart = currentTime /\ doorComplete = T0 + doorDelay

\* C6 as stated: a cycle that starts in Running with adjustmentEnabled true,
\* the computed ratio strictly above desiredRatio and no off-request ends in
\* RunningAdjusting.
C6_AsStated ==
    [][(InLoop /\ runState = Running /\ adjustmentEnabled'
          /\ FGreater(CycleRatio, desiredRatio') /\ ~OffRequest')
         => runState' = RunningAdjusting]_vars

\* C6 (amended): such a cycle ends in NotRunningAdjusting.
C6_AboveTargetStops ==
    [][(InLoop /\ runState = Running /\ adjustmentEnabled'
          /\ FGreater(CycleRatio, desiredRatio') /\ ~OffRequest')
         => runState' = notRunningAdjusting]_vars

C6_Witness ==
    /\ AfterCycle /\ startState = Running /\ runState = notRunningAdjusting
    /\ adjustmentEnabled /\ ~OffRequest
    /\ actualRatio = <<61, 121>> /\ desiredPercent = 50

\* C7: in RunningAdjusting the relay is ON; the state is left exactly in a
\* cycle where the recomputed ratio is strictly above desiredRatio or
\* adjustmentEnabled is false, whatever the sensors read, and leaving it takes
\* the off path (fold, actualRatio 0, totPeriodStart the current time, relay
\* OFF, NotRunning).
C7_RunningAdjustingExit ==
    [][(InLoop /\ runState = RunningAdjusting)
         => /\ RelayOn
            /\ IF FGreater(CycleRatio, desiredRatio') \/ ~adjustmentEnabled'
               THEN OffPathTaken
               ELSE runState' = RunningAdjusting /\ RelayOn']_vars

\* RunningAdjusting was left because the ratio passed the target, with a
\* window still open.
C7_Witness ==
    /\ AfterCycle /\ startState = RunningAdjusting /\ runState = notRunning
    /\ adjustmentEnabled /\ SSbedroom /\ RelayOff
    /\ averageCount = 1 /\ movingAverage = <<60, 121>> /\ desiredPercent = 30

\* C8 as stated: in Running and in NotRunningAdjusting the off path is taken
\* only in a cycle where the door-delay window has elapsed, whichever sensor
\* is asserted.
C8_AsStated ==
    [][(InLoop /\ runState \in {Running, notRunningAdjusting}
          /\ runState' = notRunning)
         => DoorDelayElapsed']_vars

\* C8 (amended): in Running and in NotRunningAdjusting the off path is taken
\* only in a cycle where bedroom, office or furnace is asserted, or the door
\* is open and the door-delay window has elapsed: the delay gates the door
\* alone.
C8_OffPathNeedsRequest ==
    [][(InLoop /\ runState \in {Running, notRunningAdjusting}
          /\ runState' = notRunning)
         => /\ OffRequest'
            /\ (~SSbedroom' /\ ~SSoffice' /\ ~SSfurnace') => DoorDelayElapsed']_vars

\* The off path taken from NotRunningAdjusting for an open window while the
\* door delay is still running.
C8_Witness ==
    /\ AfterCycle /\ startState = notRunningAdjusting /\ runState = notRunning
    /\ SSbedroom /\ ~DoorDelayElapsed /\ averageCount = 1

\* C9: a computed ratio equal to desiredRatio causes no transition: with no
\* off-request a cycle in Running ends in Running, and with adjustmentEnabled
\* true a cycle in RunningAdjusting ends in RunningAdjusting.
C9_EqualRatioNoTransition ==
    [][(InLoop /\ CycleRatio = desiredRatio'
          /\ \/ (runState = Running /\ ~OffRequest')
             \/ (runState = RunningAdjusting /\ adjustmentEnabled'))
         => runState' = runState]_vars

C9_Witness ==
    /\ AfterCycle /\ startState = RunningAdjusting /\ runState = RunningAdjusting
    /\ adjustmentEnabled /\ actualRatio = desiredRatio /\ OffRequest

\* The pass repeats the one before it: same pin levels, same second, same
\* adjustment setting and slider value.
RepeatedCycle ==
    /\ AfterCycle
    /\ pins' = pins /\ currentTime' = currentTime
    /\ adjustmentEnabled' = adjustmentEnabled
    /\ desiredPercent' = desiredPercent

\* C10 as stated: a second run of the cycle with identical inputs and the same
\* time leaves run state, relay, movingAverage and averageCount as the first
\* run left them.
C10_AsStated ==
    [][RepeatedCycle
         => UNCHANGED <<runState, relayControlPin, movingAverage,
                        averageCount>>]_vars

\* The first run moved Running to NotRunningAdjusting: the relay is still ON
\* and the second run switches it OFF.
StoppedForTarget == startState = Running /\ runState = notRunningAdjusting
\* The first run left RunningAdjusting with nothing asking for the fan to be
\* off: the second run starts the fan again.
ReleasedWhileClear ==
    /\ startState = RunningAdjusting /\ runState = notRunning
    /\ AllClear /\ DoorDelayElapsed

\* C10 (amended): the second run leaves run state, relay, movingAverage and
\* averageCount as the first run left them, unless the first run moved Running
\* to NotRunningAdjusting, or left RunningAdjusting while all four sensors
\* were clear and the door delay had elapsed.
C10_RepeatedCycle ==
    [][(RepeatedCycle /\ ~StoppedForTarget /\ ~ReleasedWhileClear)
         => UNCHANGED <<runState, relayControlPin, movingAverage,
                        averageCount>>]_vars

\* A second pass in the very second in which the fan was started.
C10_Witness ==
    /\ AfterCycle /\ startState = Running /\ runState = Running /\ RelayOn
    /\ AllClear /\ doorOpenSince = 0
    /\ onPeriodStart = currentTime /\ totPeriodStart < currentTime

\* C11 as stated: at the end of every control cycle the relay is ON exactly
\* when the run state is Running or RunningAdjusting.
C11_AsStated ==
    AfterCycle => (RelayOn <=> runState \in {Running, RunningAdjusting})

\* C11 (amended): at the end of every control cycle the relay is ON exactly
\* when the run state is Running or RunningAdjusting, or the cycle has just
\* moved Running to NotRunningAdjusting (line 487 leaves the relay as it was;
\* the next pass switches it OFF); otherwise the relay is OFF.
C11_RelayFollowsRunState ==
    AfterCycle =>
        /\ RelayOn <=> (runState \in {Running, RunningAdjusting}
                          \/ StoppedForTarget)
        /\ RelayOn \/ RelayOff

\* A cycle that found NotRunningAdjusting has switched the relay OFF.
C11_Witness ==
    /\ AfterCycle /\ startState = notRunningAdjusting
    /\ runState = notRunningAdjusting /\ RelayOff /\ ~SSrunning

\* C12: under a non-decreasing clock, whatever the cycles and the presses of
\* the log button, every record in the file was written in a cycle in which
\* logging was enabled, and every record's timestamp is at least the logging
\* interval (300 s) after the timestamp of the record before it, so the
\* timestamps are strictly increasing.
C12_LogCadence ==
    /\ \A i \in 1..Len(sdFile) : sdFile[i].logData
    /\ \A i \in 1..(Len(sdFile) - 1) :
          /\ sdFile[i + 1].time >= sdFile[i].time + interval
          /\ sdFile[i + 1].time > sdFile[i].time

\* Two records exactly one interval apart: the first lost an append, which
\* switched logging off, and the log button switched it on again.
C12_Witness ==
    /\ AfterCycle /\ Len(sdFile) = 2
    /\ sdFile[1].appends < recordAppends
    /\ sdFile[2].appends = recordAppends
    /\ sdFile[2].time = sdFile[1].time + interval
    /\ logData /\ logCount = 1

\* A float within [0, 1].
InUnit(x) == x[2] > 0 /\ x[1] <= x[2]

\* C13: every fold of a sample into the moving average sets
\* newCount = min(count + 1, 64) and
\* newAverage = (average * (newCount - 1) + sample) / newCount; so
\* averageCount never exceeds 64 and never decreases.
C13_FoldFormula ==
    [][pc = "fold" =>
         LET newCount == IF averageCount + 1 < maxN
                         THEN averageCount + 1 ELSE maxN
             a == movingAverage
             x == actualRatio'
             r == movingAverage'
         IN  /\ averageCount' = newCount
             /\ r[2] > 0
             \* r = (a * (newCount - 1) + x) / newCount, cross-multiplied
             /\ r[1] * (a[2] * x[2] * newCount)
                  = (a[1] * (newCount - 1) * x[2] + x[1] * a[2]) * r[2]
             /\ averageCount' <= maxN
             /\ averageCount' >= averageCount]_vars

\* A sample has been folded into an average of maxN samples.
C13_Witness ==
    /\ pc = "fold" /\ averageCount = maxN
    /\ movingAverage = <<63, 8192>> /\ actualRatio = Zero

C15_MidnightWrap ==
    [][(pc = "ratio" /\ totPeriodStart > currentTime') =>
         LET now == currentTime' + DAY
             on  == IF onPeriodStart < totPeriodStart
                    THEN onPeriodStart + DAY ELSE onPeriodStart
         IN  /\ actualRatio' = calcPeriodRatio(now, on, totPeriodStart)
             /\ on <= now =>
                  actualRatio' = FDiv(now - on, now - totPeriodStart)
             /\ (totPeriodStart = 86000 /\ onPeriodStart = 86000
                   /\ currentTime' = 100)
                  => actualRatio' = calcPeriodRatio(86500, 86000, 86000)]_vars

\* The claim's example: both starts at 86000, the ratio computed at 100.
C15_Witness ==
    /\ pc = "ratio" /\ totPeriodStart = 86000 /\ onPeriodStart = 86000
    /\ currentTime = 100 /\ actualRatio = <<1, 1>>

\* C16: for a period start at or before the on-period start, the ratio does
\* not decrease when the current time grows from a time after the period start
\* and at or after the on-period start.
C16_MonotoneInNow ==
    [][(pc = "ratio" /\ totPeriodStart <= onPeriodStart
          /\ currentTime > totPeriodStart /\ currentTime >= onPeriodStart
          /\ currentTime' >= currentTime)
         => (InUnit(actualRatio) /\ InUnit(actualRatio')
               /\ ~FLess(actualRatio', actualRatio))]_vars

\* The ratio 85500/85900 at time 86000 of a period started at 100, on since 500.
C16_Witness ==
    /\ pc = "ratio" /\ totPeriodStart = 100 /\ onPeriodStart = 500
    /\ currentTime = 86000 /\ actualRatio = <<855, 859>>

\* C17 as stated: a cycle that computes the period ratio at a current time
\* equal to or before totPeriodStart (the first cycle after start, or the
\* second in which the period was reset) computes the ratio 0, and leaves no
\* undefined value in movingAverage.
C17_AsStated ==
    [][(InLoop /\ runState \in {Running, RunningAdjusting}
          /\ currentTime' <= (IF totPeriodStart = 0 THEN currentTime'
                              ELSE totPeriodStart))
         => (CycleRatio = Zero
               /\ ~IsNaN(movingAverage') /\ ~IsInf(movingAverage'))]_vars

\* C18 as stated: actualRatio and movingAverage are within [0, 1] in every
\* reachable state, also after the set-clock operation has moved the clock
\* backwards.
C18_AsStated == InUnit(actualRatio) /\ InUnit(movingAverage)

\* C19 as stated, in the form a finite run refutes: a cycle in which
\* adjustmentEnabled is false, all windows and the door read closed, the
\* furnace signal is clear and the door delay has elapsed ends in Running with
\* the relay ON, or moves the controller to another run state on the way
\* there (with these inputs the outcome of a cycle depends on the run state
\* alone, so a cycle that does neither repeats for as long as they last, and
\* the fan never runs).
C19_AsStated ==
    [][(InLoop /\ ~adjustmentEnabled' /\ AllClear' /\ DoorDelayElapsed')
         => ((runState' = Running /\ RelayOn') \/ runState' # runState)]_vars

\* The pass folded the ratio the pass before it had left in actualRatio.
FoldedLastRatio ==
    LET m == calcMovingAverage(movingAverage, actualRatio, averageCount)
    IN  movingAverage' = m.mA /\ averageCount' = m.count

\* The relay goes from ON to OFF in this pass.
OffTransition == InLoop /\ RelayOn /\ RelayOff'

\* C20 as stated: in every cycle that takes the relay from ON to OFF the ratio
\* has been folded into movingAverage and actualRatio is 0 at the end of the
\* cycle; and actualRatio is 0 whenever the relay is OFF.
C20_AsStated ==
    [][InLoop =>
         /\ OffTransition
              => ((FoldedCycleRatio \/ FoldedLastRatio) /\ actualRatio' = Zero)
         /\ RelayOff' => actualRatio' = Zero]_vars

\* C20 (amended): a cycle that takes the relay from ON to OFF and ends in
\* NotRunning has folded the ratio into movingAverage (the ratio it computed,
\* or from NotRunningAdjusting the ratio last computed) and leaves actualRatio
\* 0; the only other cycle that takes the relay from ON to OFF is the first
\* one in NotRunningAdjusting with no off-request, which folds nothing and
\* leaves actualRatio as last computed; actualRatio is 0 whenever the run
\* state is NotRunning.
C20_OffTransition ==
    [][InLoop =>
         /\ (OffTransition /\ runState' = notRunning)
              => /\ IF runState = notRunningAdjusting
                    THEN FoldedLastRatio ELSE FoldedCycleRatio
                 /\ actualRatio' = Zero
         /\ (OffTransition /\ runState' # notRunning)
              => /\ runState = notRunningAdjusting
                 /\ runState' = notRunningAdjusting
                 /\ ~OffRequest'
                 /\ UNCHANGED <<movingAverage, averageCount, actualRatio>>
         /\ runState' = notRunning => actualRatio' = Zero]_vars

\* RunningAdjusting has ended with the ratio above the target: folded, reset.
C20_Witness ==
    /\ AfterCycle /\ startState = RunningAdjusting /\ runState = notRunning
    /\ RelayOff /\ actualRatio = Zero /\ averageCount = 1
    /\ InUnit(movingAverage) /\ adjustmentEnabled

\* The pass reads the door at the other level than the pass before it.
DoorEdge == InLoop /\ SSkitchen' # SSkitchen

\* C21 as stated: when a door edge occurs before the deadline armed by an
\* earlier edge has expired, doorComplete keeps the value the earlier edge
\* armed.
C21_AsStated ==
    [][(DoorEdge /\ doorComplete # 0 /\ currentTime' <= doorComplete)
         => doorComplete' = doorComplete]_vars

\* C21 (amended): every door edge arms the deadline, doorComplete becoming the
\* current time plus doorDelay, also when the deadline armed by an earlier
\* edge has not expired; a cycle without a door edge leaves doorComplete as it
\* was.
C21_EveryEdgeArms ==
    [][InLoop =>
         IF DoorEdge THEN doorComplete' = currentTime' + doorDelay
                     ELSE doorComplete' = doorComplete]_vars

\* The door has closed at 61, within the delay an opening had armed: the
\* deadline is 61 + doorDelay.
C21_Witness ==
    /\ AfterCycle /\ currentTime = 61 /\ ~SSkitchen /\ pins.kitchen = LOW
    /\ doorComplete = 61 + doorDelay

\* The state the switch of a pass works on, read off the step: the globals
\* as the pass before left them, and the clock, the sensors, the adjustment
\* setting and the target as this pass read them.
PassState ==
    [runState |-> runState, SSrunning |-> SSrunning,
     relayControlPin |-> relayControlPin,
     actualRatio |-> actualRatio, movingAverage |-> movingAverage,
     averageCount |-> averageCount,
     onPeriodStart |-> IF onPeriodStart = 0 /\ runState = Running
                       THEN currentTime' ELSE onPeriodStart,
     totPeriodStart |-> IF totPeriodStart = 0
                        THEN currentTime' ELSE totPeriodStart,
     currentTime |-> currentTime', doorComplete |-> doorComplete',
     SSbedroom |-> SSbedroom', SSoffice |-> SSoffice',
     SSkitchen |-> SSkitchen', SSfurnace |-> SSfurnace',
     adjustmentEnabled |-> adjustmentEnabled', desiredRatio |-> desiredRatio']

\* C22: in a cycle in which the SD card refuses an append of the log record,
\* the appends after the refused one are not made (the file holds the appends
\* before it and no more), logCount is not incremented, logData is false at
\* the end of the cycle, and run state, relay, actualRatio and movingAverage
\* are what the switch leaves for the readings of the cycle, as they are when
\* the card takes every append.
C22_FailedAppend ==
    [][(InLoop /\ sdError' # 0) =>
         /\ IF sdError' = 1
            THEN sdFile' = sdFile
            ELSE /\ Len(sdFile') = Len(sdFile) + 1
                 /\ sdFile'[Len(sdFile')].time = currentTime'
                 /\ sdFile'[Len(sdFile')].appends = sdError' - 1
         /\ logCount' = logCount
         /\ ~logData'
         /\ \E n \in {RunSwitch(PassState)} :
               /\ runState' = n.runState
               /\ relayControlPin' = n.relayControlPin
               /\ actualRatio' = n.actualRatio
               /\ movingAverage' = n.movingAverage]_vars

\* The card refused the fifth append of the first record while the fan ran.
C22_Witness ==
    /\ AfterCycle /\ sdError = 5 /\ Len(sdFile) = 1 /\ sdFile[1].appends = 4
    /\ ~logData /\ logCount = 0 /\ runState = Running /\ RelayOn

\* C23: at the end of every control cycle in which adjustmentEnabled is false
\* and the bedroom window, the office window or the furnace signal is
\* asserted, the relay is OFF, whatever run state the cycle started in.
C23_RequestStopsFan ==
    (AfterCycle /\ ~adjustmentEnabled /\ (SSbedroom \/ SSoffice \/ SSfurnace))
        => RelayOff

\* A cycle that started in RunningAdjusting with the bedroom window open and
\* adjustment just switched off has stopped the fan.
C23_Witness ==
    /\ AfterCycle /\ startState = RunningAdjusting /\ runState = notRunning
    /\ ~adjustmentEnabled /\ SSbedroom /\ ~SSoffice /\ ~SSfurnace /\ RelayOff

\* C24: under a non-decreasing clock, whenever the ratio is computed (the
\* cycle starts in Running or RunningAdjusting)
\* totPeriodStart <= onPeriodStart <= currentTime holds for the values the
\* computation uses, and they are left in that order for the next cycle; so
\* every ratio computed with a positive denominator lies in [0, 1].
C24_PeriodOrder ==
    [][InLoop =>
         /\ runState \in {Running, RunningAdjusting} =>
              LET tot0 == IF totPeriodStart = 0
                          THEN currentTime' ELSE totPeriodStart
                  on0  == IF onPeriodStart = 0 /\ runState = Running
                          THEN currentTime' ELSE onPeriodStart
              IN  /\ tot0 <= on0 /\ on0 <= currentTime'
                  /\ currentTime' > tot0 =>
                       (CycleRatio = FDiv(currentTime' - on0,
                                          currentTime' - tot0)
                          /\ InUnit(CycleRatio))
         /\ runState' \in {Running, RunningAdjusting} =>
              (totPeriodStart' <= onPeriodStart'
                 /\ onPeriodStart' <= currentTime')]_vars

\* Off from 1 to 61 and on since: the ratio computed at 122 is 61/121.
C24_Witness ==
    /\ AfterCycle /\ startState = Running /\ runState = Running
    /\ totPeriodStart = T0 /\ onPeriodStart = 61 /\ currentTime = 122
    /\ actualRatio = <<61, 121>>

\* C25: after setup and at the end of every control cycle the fan status flag
\* SSrunning, which the log record carries, is true exactly when the relay is
\* ON.
C25_StatusIsRelay ==
    InLoop => (SSrunning <=> RelayOn) /\ (~SSrunning <=> RelayOff)

\* The cycle that stopped the fan for the duty target has left the relay ON,
\* and the flag true with it.
C25_Witness ==
    /\ AfterCycle /\ StoppedForTarget /\ SSrunning /\ RelayOn
    /\ adjustmentEnabled /\ FGreater(actualRatio, desiredRatio)

====
